---- MODULE Spec2Model ----
(***************************************************************************)
(* A model of scrape_dataset11.py: the listing scraper's main pass, its    *)
(* per-page download pool, the retry pass over zero-result pages and the   *)
(* pure helpers (extract_pdf_links, urljoin, safe_filename, get_soup).     *)
(*                                                                         *)
(* Strings are sequences of one-character strings, so that suffix tests,   *)
(* URL splitting and basename are computed as the code computes them.      *)
(***************************************************************************)
EXTENDS Integers, Sequences, FiniteSets, TLC

(***************************************************************************)
(* Bounds of the model.                                                    *)
(***************************************************************************)
\* largest page parameter a pagination link of page 1 may name
MaxPage == 1
\* largest value of --zero-retries
MaxRetries == 2
\* largest value of --threads
MaxThreads == 2
\* most anchors of a document handed to extract_pdf_links on its own
MaxAnchors == 3

(***************************************************************************)
(* String constants.                                                       *)
(***************************************************************************)
BASE_URL == <<"h","t","t","p","s",":","/","/","w","w","w",".","j","u","s","t","i","c","e",".","g","o","v","/","e","p","s","t","e","i","n","/","d","o","j","-","d","i","s","c","l","o","s","u","r","e","s","/","d","a","t","a","-","s","e","t","-","1","1","-","f","i","l","e","s">>
DefaultName == <<"d","o","w","n","l","o","a","d",".","p","d","f">>
DotPdf == <<".","p","d","f">>
DotPdfQ == <<".","p","d","f","?">>
OutDir == <<"d","o","w","n","l","o","a","d","s","/","d","a","t","a","s","e","t","-","1","1">>
Digit == <<"0","1","2","3","4","5","6","7","8","9">>
Letters == {"a","b","c","d","e","f","g","h","i","j","k","l","m","n","o","p","q","r","s","t","u","v","w","x","y","z",
            "A","B","C","D","E","F","G","H","I","J","K","L","M","N","O","P","Q","R","S","T","U","V","W","X","Y","Z"}
SchemeChars == Letters \cup {Digit[i] : i \in 1..10} \cup {"+", "-", "."}

\* hrefs the modelled listing pages are built from
H_dA == <<"/","d","/","a",".","p","d","f">>
H_eA == <<"/","e","/","a",".","p","d","f">>
H_relA == <<"a",".","p","d","f">>
H_absA == <<"h","t","t","p","s",":","/","/","w","w","w",".","j","u","s","t","i","c","e",".","g","o","v","/","d","/","a",".","p","d","f">>
H_bQ == <<"/","d","/","b",".","p","d","f","?","v">>
H_txt == <<"/","d","/","c",".","t","x","t">>
H_dirQ == <<"/","d","/","?","f","=",".","p","d","f">>
H_PDF == <<"/","d","/","a",".","P","D","F">>
H_empty == <<>>

(***************************************************************************)
(* String helpers (str.startswith, str.endswith, in, find, split, join).   *)
(***************************************************************************)
StartsWith(s, p) == Len(p) <= Len(s) /\ SubSeq(s, 1, Len(p)) = p

EndsWith(s, p) == Len(p) <= Len(s) /\ SubSeq(s, Len(s) - Len(p) + 1, Len(s)) = p

Contains(s, p) == \E i \in 1..(Len(s) - Len(p) + 1) : SubSeq(s, i, i + Len(p) - 1) = p

\* s.find over a set of characters: the first index holding one, 0 when none
FindAny(s, cs) ==
    IF \E i \in 1..Len(s) : s[i] \in cs
    THEN CHOOSE i \in 1..Len(s) : s[i] \in cs /\ \A j \in 1..(i - 1) : s[j] \notin cs
    ELSE 0

Drop(s, n) == SubSeq(s, n + 1, Len(s))

Take(s, n) == SubSeq(s, 1, n)

RECURSIVE Split(_, _)
\* s.split(c): the segments between the occurrences of c, empty ones kept
Split(s, c) ==
    IF FindAny(s, {c}) = 0 THEN <<s>>
    ELSE <<Take(s, FindAny(s, {c}) - 1)>> \o Split(Drop(s, FindAny(s, {c})), c)

RECURSIVE Join(_, _)
\* c.join(segs)
Join(segs, c) ==
    IF Len(segs) = 0 THEN <<>>
    ELSE IF Len(segs) = 1 THEN segs[1]
    ELSE segs[1] \o <<c>> \o Join(Tail(segs), c)

(***************************************************************************)
(* urllib.parse: urlsplit, urlunsplit, urljoin, on URLs without params.    *)
(***************************************************************************)
Parts(scheme, netloc, path, query, fragment) ==
    [scheme |-> scheme, netloc |-> netloc, path |-> path, query |-> query,
     fragment |-> fragment]

\* s.partition(c): what precedes the first c, and what follows it
Before(s, i) == IF i = 0 THEN s ELSE Take(s, i - 1)

After(s, i) == IF i = 0 THEN <<>> ELSE Drop(s, i)

\* url.split('?', 1) on what is left once the fragment is cut off
SplitQuery(scheme, netloc, rest, fragment, q) ==
    Parts(scheme, netloc, Before(rest, q), After(rest, q), fragment)

\* url.split('#', 1)
SplitFragment(scheme, netloc, rest, h) ==
    SplitQuery(scheme, netloc, Before(rest, h), After(rest, h), FindAny(Before(rest, h), {"?"}))

\* _splitnetloc(url, 2): the netloc ends at the first of "/", "?", "#"
SplitNetloc(scheme, after, k) ==
    IF k = 0 THEN Parts(scheme, after, <<>>, <<>>, <<>>)
    ELSE SplitFragment(scheme, Take(after, k - 1), Drop(after, k - 1),
                       FindAny(Drop(after, k - 1), {"#"}))

AfterScheme(scheme, rest) ==
    IF StartsWith(rest, <<"/", "/">>)
    THEN SplitNetloc(scheme, Drop(rest, 2), FindAny(Drop(rest, 2), {"/", "?", "#"}))
    ELSE SplitFragment(scheme, <<>>, rest, FindAny(rest, {"#"}))

\* the text before the first ":" is a scheme
IsScheme(url, i) ==
    /\ i > 1
    /\ url[1] \in Letters
    /\ \A j \in 1..(i - 1) : url[j] \in SchemeChars

SplitScheme(url, i) ==
    IF IsScheme(url, i) THEN AfterScheme(Take(url, i - 1), Drop(url, i))
    ELSE AfterScheme(<<>>, url)

urlsplit(url) == SplitScheme(url, FindAny(url, {":"}))

WithNetloc(netloc, path) ==
    <<"/", "/">> \o netloc \o (IF path # <<>> /\ path[1] # "/" THEN <<"/">> ELSE <<>>) \o path

WithPart(s, sep, part) == IF part # <<>> THEN s \o sep \o part ELSE s

urlunsplit(u) ==
    WithPart(
      WithPart(
        (IF u.scheme # <<>> THEN u.scheme \o <<":">> ELSE <<>>)
        \o (IF u.netloc # <<>> \/ (u.scheme # <<>> /\ ~StartsWith(u.path, <<"/", "/">>))
            THEN WithNetloc(u.netloc, u.path) ELSE u.path),
        <<"?">>, u.query),
      <<"#">>, u.fragment)

RECURSIVE ResolveDots(_, _)
\* urljoin's loop over the segments: ".." pops, "." is dropped
ResolveDots(segs, acc) ==
    IF Len(segs) = 0 THEN acc
    ELSE IF segs[1] = <<".", ".">>
         THEN ResolveDots(Tail(segs), IF Len(acc) = 0 THEN acc ELSE Take(acc, Len(acc) - 1))
    ELSE IF segs[1] = <<".">> THEN ResolveDots(Tail(segs), acc)
    ELSE ResolveDots(Tail(segs), Append(acc, segs[1]))

NonEmptySeg(seg) == seg # <<>>

\* bpath.split('/') without its last segment, unless that segment is empty
BaseParts(parts) ==
    IF parts[Len(parts)] # <<>> THEN Take(parts, Len(parts) - 1) ELSE parts

\* segments[1:-1] = filter(None, segments[1:-1])
FilterInner(segs) ==
    IF Len(segs) <= 2 THEN segs
    ELSE <<segs[1]>> \o SelectSeq(SubSeq(segs, 2, Len(segs) - 1), NonEmptySeg)
         \o <<segs[Len(segs)]>>

Segments(bpath, path) ==
    IF StartsWith(path, <<"/">>) THEN Split(path, "/")
    ELSE FilterInner(BaseParts(Split(bpath, "/")) \o Split(path, "/"))

\* the resolved path: a trailing "." or ".." leaves a trailing "/"
ResolvedPath(segments) ==
    Join(IF segments[Len(segments)] \in {<<".">>, <<".", ".">>}
         THEN Append(ResolveDots(segments, <<>>), <<>>)
         ELSE ResolveDots(segments, <<>>), "/")

OrSlash(path) == IF path = <<>> THEN <<"/">> ELSE path

\* urljoin once both URLs are split and the scheme defaulted to the base's
JoinParts(b, u, url) ==
    IF u.scheme # b.scheme THEN url
    ELSE IF u.netloc # <<>> THEN urlunsplit(u)
    ELSE IF u.path = <<>>
    THEN urlunsplit(Parts(u.scheme, b.netloc, b.path,
                          IF u.query = <<>> THEN b.query ELSE u.query, u.fragment))
    ELSE urlunsplit(Parts(u.scheme, b.netloc, OrSlash(ResolvedPath(Segments(b.path, u.path))),
                          u.query, u.fragment))

DefaultScheme(b, u) == [u EXCEPT !.scheme = IF u.scheme = <<>> THEN b.scheme ELSE u.scheme]

JoinSplit(b, u, url) == JoinParts(b, DefaultScheme(b, u), url)

urljoin(base, url) ==
    IF base = <<>> THEN url
    ELSE IF url = <<>> THEN base
    ELSE JoinSplit(urlsplit(base), urlsplit(url), url)

\* os.path.basename: what follows the last "/"
LastOf(segs) == segs[Len(segs)]

basename(path) == LastOf(Split(path, "/"))

\* os.path.join(dest_dir, filename), filename holding no "/"
path_join(dir, name) == dir \o <<"/">> \o name

OrDefaultName(name) == IF name = <<>> THEN DefaultName ELSE name

safe_filename(url) == OrDefaultName(basename(urlsplit(url).path))

(***************************************************************************)
(* extract_pdf_links: a document is the sequence of the hrefs of its       *)
(* anchors, in document order.                                             *)
(***************************************************************************)
\* a[href$='.pdf'], a[href*='.pdf?']
SelectorMatches(href) == EndsWith(href, DotPdf) \/ Contains(href, DotPdfQ)

LinkKept(href) == SelectorMatches(href) /\ href # <<>>

\* Unique that keeps every link
Unique_NoDedup(links, seen, unique) == unique \o links

RECURSIVE Unique(_, _, _)
\* the dedup loop: seen is the set, unique the list built so far
Unique(links, seen, unique) ==
    IF Len(links) = 0 THEN unique
    ELSE IF links[1] \in seen THEN Unique(Tail(links), seen, unique)
    ELSE Unique(Tail(links), seen \cup {links[1]}, Append(unique, links[1]))

extract_pdf_links(soup) == Unique(SelectSeq(soup, LinkKept), {}, <<>>)

RECURSIVE MapUrljoin(_)
\* [urljoin(BASE_URL, href) for href in page_links]
MapUrljoin(page_links) ==
    IF Len(page_links) = 0 THEN <<>>
    ELSE <<urljoin(BASE_URL, page_links[1])>> \o MapUrljoin(Tail(page_links))

(***************************************************************************)
(* What the server and the browser may answer.                             *)
(***************************************************************************)
NoLast == -1

Soup(anchors, page_nums, last_page) ==
    [anchors |-> anchors, page_nums |-> page_nums, last_page |-> last_page]

NoSoup == Soup(<<>>, {}, NoLast)

\* listing pages: no link, only a non-PDF link, two URLs sharing a file name,
\* one URL written three ways beside another file
ServerDocs == { <<>>, <<H_txt>>, <<H_dA, H_eA>>, <<H_absA, H_dA, H_bQ>> }

ListingSoups == { Soup(d, {}, NoLast) : d \in ServerDocs }

Range(s) == { s[i] : i \in DOMAIN s }

\* lines 453 and 456, tabulated over the documents the server may send:
\* page_links = extract_pdf_links(soup), and the urljoin of each
PageLinks == [d \in ServerDocs \cup {<<>>} |-> extract_pdf_links(d)]

AbsPageLinks == [d \in DOMAIN PageLinks |-> MapUrljoin(PageLinks[d])]

\* every absolute file URL a run can meet
KnownUrls == UNION { Range(AbsPageLinks[d]) : d \in DOMAIN AbsPageLinks }

\* lines 207-208, tabulated: dest_path = os.path.join(dest_dir, safe_filename(url))
DestPaths == [u \in KnownUrls |-> path_join(OutDir, safe_filename(u))]

dest_path(url) == DestPaths[url]

\* page 1 as the initial fetch sees it: only its pagination links matter
FirstSoups == { Soup(<<>>, ns, l) : ns \in SUBSET (0..MaxPage), l \in {NoLast} \cup (0..MaxPage) }

\* status 0: no response at all (requests.ConnectionError, requests.Timeout)
ErrorStatuses == {0, 403, 500}

ReqOutcomes(soups) ==
    { [status |-> 200, soup |-> s] : s \in soups }
    \cup { [status |-> e, soup |-> NoSoup] : e \in ErrorStatuses }

\* Playwright returns the rendered page whatever its status, or times out
PwOutcomes(soups) ==
    { [ok |-> TRUE, soup |-> s] : s \in soups }
    \cup { [ok |-> FALSE, soup |-> NoSoup] }

(***************************************************************************)
(* get_soup: the fetch of one listing page.  req and pwr are what the      *)
(* Requests session and the browser would answer if asked; trace lists the *)
(* fetches actually made, in order.                                        *)
(***************************************************************************)
\* one fetch, by whom, with what status, and the page it parsed
ViaRequests(req) == [via |-> "requests", status |-> req.status, soup |-> req.soup]

ViaPlaywright(pwr) ==
    [via |-> "playwright", status |-> IF pwr.ok THEN 200 ELSE 0, soup |-> pwr.soup]

Returned(soup, trace) == [raised |-> FALSE, exc |-> "", soup |-> soup, trace |-> trace]

Raised(exc, trace) == [raised |-> TRUE, exc |-> exc, soup |-> NoSoup, trace |-> trace]

\* PlaywrightFetcher.get_soup
pw_get_soup(pwr, trace) ==
    IF pwr.ok THEN Returned(pwr.soup, Append(trace, ViaPlaywright(pwr)))
    ELSE Raised("PlaywrightError", Append(trace, ViaPlaywright(pwr)))

\* get_soup_requests: session.get, raise_for_status, parse
get_soup_requests(req) ==
    IF req.status = 200 THEN Returned(req.soup, <<ViaRequests(req)>>)
    ELSE IF req.status = 0 THEN Raised("ConnectionError", <<ViaRequests(req)>>)
    ELSE Raised("HTTPError", <<ViaRequests(req)>>)

\* get_soup_except with the 403 branch lost: every HTTPError is re-raised
get_soup_except_NoFallback(r, status, pw_ok, pwr) == r

\* get_soup_except falling back to the browser on every HTTPError
get_soup_except_AnyStatus(r, status, pw_ok, pwr) ==
    IF r.exc = "HTTPError"
    THEN IF ~pw_ok THEN Raised("RuntimeError", r.trace)
         ELSE pw_get_soup(pwr, r.trace)
    ELSE r

\* the except clause of get_soup, lines 146-151: r is what the try block raised
get_soup_except(r, status, pw_ok, pwr) ==
    IF r.exc = "HTTPError"
    THEN IF status = 403
         THEN IF ~pw_ok THEN Raised("RuntimeError", r.trace)
              ELSE pw_get_soup(pwr, r.trace)
         ELSE r
    ELSE r

\* the try block of get_soup, lines 141-145
get_soup_try(force_playwright, pw_ok, req, pwr) ==
    IF force_playwright
    THEN IF ~pw_ok THEN Raised("RuntimeError", <<>>)
         ELSE pw_get_soup(pwr, <<>>)
    ELSE get_soup_requests(req)

GetSoupHandled(r, req, pw_ok, pwr) ==
    IF r.raised THEN get_soup_except(r, req.status, pw_ok, pwr) ELSE r

get_soup(force_playwright, pw_ok, req, pwr) ==
    GetSoupHandled(get_soup_try(force_playwright, pw_ok, req, pwr), req, pw_ok, pwr)

(***************************************************************************)
(* find_pagination_bounds and find_last_page_link, on the page numbers the *)
(* pagination links name.                                                  *)
(***************************************************************************)
SetMin(S) == CHOOSE m \in S : \A n \in S : m <= n

SetMax(S) == CHOOSE m \in S : \A n \in S : n <= m

find_pagination_bounds(soup) ==
    IF soup.page_nums = {} THEN <<1, 1>>
    ELSE <<SetMin(soup.page_nums), SetMax(soup.page_nums)>>

RECURSIVE Sorted(_)
\* sorted(set(...)) of page numbers
Sorted(S) == IF S = {} THEN <<>> ELSE <<SetMin(S)>> \o Sorted(S \ {SetMin(S)})

(***************************************************************************)
(* State.                                                                  *)
(***************************************************************************)
VARIABLES
    args,                   \* the parsed command line
    pc,                     \* where main() is
    pw_gate_handled,        \* PlaywrightFetcher._gate_handled: the browser has loaded a page
    session_cookies,        \* the cookies copied into the Requests session from the browser
    min_page, max_page,
    page,                   \* the main loop's page
    todo,                   \* the links of the current page the link loop has yet to visit
    seen_urls,
    disk,                   \* the output directory: path -> what the file holds
    calls,                  \* the download_file calls of the current page (future_map)
    zero_pages, retry_pages,
    attempt, retry_i,       \* the retry loops' positions
    page_downloaded_files, page_skipped_files,
    total_files_downloaded, total_files_skipped,
    zero_file,              \* zero_pages.txt: the lines written, <<>> with written FALSE if absent
    last_fetch,             \* history: the get_soup call of the latest step, if it made one
    still_empty,            \* history: the pages whose latest fetch yielded no link
    refetches,              \* history: page -> the fetches the retry pass made of it
    dl_count,               \* history: URL -> the download_file calls made for it
    main_fetched,           \* history: the pages the main pass fetched, in order
    in_soup, out_links      \* extract_pdf_links on its own: the document and the result

vars == <<args, pc, pw_gate_handled, session_cookies, min_page, max_page, page, todo,
          seen_urls, disk, calls, zero_pages, retry_pages, attempt, retry_i,
          page_downloaded_files, page_skipped_files, total_files_downloaded,
          total_files_skipped, zero_file, last_fetch, still_empty, refetches, dl_count,
          main_fetched, in_soup, out_links>>

NoFetch == [phase |-> "none", page |-> 0, raised |-> FALSE, soup |-> NoSoup, trace |-> <<>>]

\* pw is not None
pw_ready == args.use_playwright \/ args.hybrid

\* a file left by an earlier run
OldFile == [url |-> <<>>, complete |-> TRUE]

ArgSets ==
    [use_playwright : BOOLEAN, hybrid : BOOLEAN, threads : 1..MaxThreads,
     zero_retries : 0..MaxRetries, dry_run : BOOLEAN]

Init ==
    /\ args \in ArgSets
    /\ pc = "initial_fetch"
    /\ pw_gate_handled = FALSE
    /\ session_cookies = "own"
    /\ min_page = 1 /\ max_page = 1 /\ page = 1
    /\ todo = <<>>
    /\ seen_urls = {}
    /\ disk \in { <<>>, [p \in {dest_path(urljoin(BASE_URL, H_dA))} |-> OldFile] }
    /\ calls = <<>>
    /\ zero_pages = <<>> /\ retry_pages = <<>>
    /\ attempt = 0 /\ retry_i = 0
    /\ page_downloaded_files = 0 /\ page_skipped_files = 0
    /\ total_files_downloaded = 0 /\ total_files_skipped = 0
    /\ zero_file = [written |-> FALSE, lines |-> <<>>]
    /\ last_fetch = NoFetch
    /\ still_empty = {}
    /\ refetches = <<>>
    /\ dl_count = <<>>
    /\ main_fetched = <<>>
    /\ in_soup = <<>> /\ out_links = <<>>

(***************************************************************************)
(* download_file, in the steps another thread can observe:                 *)
(*   queued      submitted, not yet started                                *)
(*   requesting  past the exists and dry-run checks, before the response   *)
(*   writing     the response was good and the file is open for writing    *)
(*   returned    ret holds (dest_path, bytes_written, skipped)             *)
(*   raised      the call raised                                           *)
(***************************************************************************)
\* the bytes the server sends for a file
BodySize(url) == Len(url)

NoRet == [path |-> <<>>, bytes_written |-> 0, skipped |-> FALSE]

\* requested: requests.get was issued for the URL (line 214)
\* collected: the caller has consumed the result
Call(url) ==
    [url |-> url, st |-> "queued", requested |-> FALSE, collected |-> FALSE, ret |-> NoRet]

\* os.path.exists(dest_path)
exists(d, path) == path \in DOMAIN d

\* the file at path now holds c
WriteFile(d, path, c) == [p \in (DOMAIN d) \cup {path} |-> IF p = path THEN c ELSE d[p]]

\* download_check without the os.path.exists test
download_check_NoExists(c, d, dry_run) ==
    IF dry_run
    THEN [c EXCEPT !.st = "returned",
                   !.ret = [path |-> dest_path(c.url), bytes_written |-> 0, skipped |-> TRUE]]
    ELSE [c EXCEPT !.st = "requesting"]

\* lines 207-212: the two early returns
download_check(c, d, dry_run) ==
    IF exists(d, dest_path(c.url))
    THEN [c EXCEPT !.st = "returned",
                   !.ret = [path |-> dest_path(c.url), bytes_written |-> 0, skipped |-> TRUE]]
    ELSE IF dry_run
    THEN [c EXCEPT !.st = "returned",
                   !.ret = [path |-> dest_path(c.url), bytes_written |-> 0, skipped |-> TRUE]]
    ELSE [c EXCEPT !.st = "requesting"]

Running(cs) == { i \in DOMAIN cs : cs[i].st \in {"requesting", "writing"} }

Finished(cs) == { i \in DOMAIN cs : cs[i].st \in {"returned", "raised"} }

InFlight(c) == c.st \in {"queued", "requesting", "writing"}

\* the pool has max_workers threads; the main thread runs a sequential call itself
max_workers == IF pc = "pool" THEN args.threads ELSE 1

\* a worker (or the main thread) enters download_file for the oldest queued call
DlStart(i) ==
    /\ pc \in {"pool", "seq_call", "retry_call"}
    /\ i \in DOMAIN calls
    /\ calls[i].st = "queued"
    /\ \A j \in 1..(i - 1) : calls[j].st # "queued"
    /\ Cardinality(Running(calls)) < max_workers
    /\ calls' = [calls EXCEPT ![i] = download_check(calls[i], disk, args.dry_run)]
    /\ last_fetch' = NoFetch
    /\ UNCHANGED <<args, pc, pw_gate_handled, session_cookies, min_page, max_page, page,
                   todo, seen_urls, disk, zero_pages, retry_pages, attempt, retry_i,
                   page_downloaded_files, page_skipped_files, total_files_downloaded,
                   total_files_skipped, zero_file, still_empty, refetches, dl_count,
                   main_fetched, in_soup, out_links>>

\* lines 214-217: requests.get, raise_for_status, open(dest_path, "wb")
DlRequest(i) ==
    /\ i \in DOMAIN calls
    /\ calls[i].st = "requesting"
    /\ \E good \in BOOLEAN :
          IF good
          THEN /\ disk' = WriteFile(disk, dest_path(calls[i].url),
                                    [url |-> calls[i].url, complete |-> FALSE])
               /\ calls' = [calls EXCEPT ![i].st = "writing", ![i].requested = TRUE]
          ELSE /\ disk' = disk
               /\ calls' = [calls EXCEPT ![i].st = "raised", ![i].requested = TRUE]
    /\ last_fetch' = NoFetch
    /\ UNCHANGED <<args, pc, pw_gate_handled, session_cookies, min_page, max_page, page,
                   todo, seen_urls, zero_pages, retry_pages, attempt, retry_i,
                   page_downloaded_files, page_skipped_files, total_files_downloaded,
                   total_files_skipped, zero_file, still_empty, refetches, dl_count,
                   main_fetched, in_soup, out_links>>

\* lines 218-222: the chunks are written and the call returns, or a chunk fails
DlWrite(i) ==
    /\ i \in DOMAIN calls
    /\ calls[i].st = "writing"
    /\ \E good \in BOOLEAN :
          IF good
          THEN /\ disk' = WriteFile(disk, dest_path(calls[i].url),
                                    [url |-> calls[i].url, complete |-> TRUE])
               /\ calls' = [calls EXCEPT ![i].st = "returned",
                                         ![i].ret = [path |-> dest_path(calls[i].url),
                                                     bytes_written |-> BodySize(calls[i].url),
                                                     skipped |-> FALSE]]
          ELSE /\ disk' = disk
               /\ calls' = [calls EXCEPT ![i].st = "raised"]
    /\ last_fetch' = NoFetch
    /\ UNCHANGED <<args, pc, pw_gate_handled, session_cookies, min_page, max_page, page,
                   todo, seen_urls, zero_pages, retry_pages, attempt, retry_i,
                   page_downloaded_files, page_skipped_files, total_files_downloaded,
                   total_files_skipped, zero_file, still_empty, refetches, dl_count,
                   main_fetched, in_soup, out_links>>

(***************************************************************************)
(* main().  --start-page, --pages and --max-pages keep their defaults; the *)
(* sleeps and the progress output are left out.                            *)
(***************************************************************************)
\* one get_soup call, as a history record
Fetch(phase, p, r) ==
    [phase |-> phase, page |-> p, raised |-> r.raised, soup |-> r.soup, trace |-> r.trace]

\* the pages whose latest fetch yielded no link, after page p was fetched
StillEmpty(se, p, r, page_links) ==
    IF ~r.raised /\ page_links = <<>> THEN se \cup {p} ELSE se \ {p}

\* f with f[k] one larger, a missing k counting as 0
Incr(f, k) ==
    [j \in (DOMAIN f) \cup {k} |-> IF j = k THEN (IF k \in DOMAIN f THEN f[k] + 1 ELSE 1) ELSE f[j]]

RECURSIVE IncrAll(_, _)
IncrAll(f, ks) == IF Len(ks) = 0 THEN f ELSE IncrAll(Incr(f, ks[1]), Tail(ks))

BrowserLoaded(trace) == \E k \in DOMAIN trace : trace[k].via = "playwright" /\ trace[k].status = 200

\* lines 403-439: the initial fetch of page 1, the page bounds, the cookie transfer
InitialFetch ==
    /\ pc = "initial_fetch"
    /\ \E req \in ReqOutcomes(FirstSoups), pwr \in PwOutcomes(FirstSoups) :
          LET r == get_soup(args.use_playwright, pw_ready, req, pwr)
              b == find_pagination_bounds(r.soup)
              last_link == r.soup.last_page
              mx == IF last_link # NoLast /\ last_link > b[2] THEN last_link ELSE b[2]
              loaded == pw_gate_handled \/ BrowserLoaded(r.trace)
          IN /\ last_fetch' = Fetch("initial", 1, r)
             /\ pw_gate_handled' = loaded
             /\ IF r.raised
                THEN /\ pc' = "aborted"
                     /\ UNCHANGED <<min_page, max_page, page, session_cookies>>
                ELSE /\ min_page' = b[1]
                     /\ max_page' = mx
                     /\ page' = b[1]
                     /\ session_cookies' = IF args.hybrid /\ pw_ready /\ loaded
                                           THEN "browser" ELSE session_cookies
                     /\ pc' = "fetch_page"
    /\ UNCHANGED <<args, todo, seen_urls, disk, calls, zero_pages, retry_pages, attempt,
                   retry_i, page_downloaded_files, page_skipped_files,
                   total_files_downloaded, total_files_skipped, zero_file, still_empty,
                   refetches, dl_count, main_fetched, in_soup, out_links>>

\* already_seen with the membership test lost
already_seen_Never(link, seen) == FALSE

\* link in seen_urls (lines 468, 483, 559)
already_seen(link, seen) == link \in seen

RECURSIVE ToFetch(_, _, _, _)
\* lines 481-487: the links not seen before, the seen set and the skip count after the loop
ToFetch(links, seen, to_fetch, skipped) ==
    IF Len(links) = 0 THEN [to_fetch |-> to_fetch, seen |-> seen, skipped |-> skipped]
    ELSE IF already_seen(links[1], seen)
    THEN ToFetch(Tail(links), seen, to_fetch, skipped + 1)
    ELSE ToFetch(Tail(links), seen \cup {links[1]}, Append(to_fetch, links[1]), skipped)

\* pool.submit(download_file, link, ...) for link in to_fetch
Submit(to_fetch) == [k \in 1..Len(to_fetch) |-> Call(to_fetch[k])]

\* lines 441-464 and, with --threads > 1, 481-493: fetch a page of the main pass
FetchPage ==
    /\ pc = "fetch_page"
    /\ \E req \in ReqOutcomes(ListingSoups), pwr \in PwOutcomes(ListingSoups) :
          LET r == get_soup(args.use_playwright /\ ~args.hybrid, pw_ready, req, pwr)
              page_links == PageLinks[r.soup.anchors]
              abs_page_links == AbsPageLinks[r.soup.anchors]
              tf == ToFetch(abs_page_links, seen_urls, <<>>, 0)
          IN /\ last_fetch' = Fetch("main", page, r)
             /\ main_fetched' = Append(main_fetched, page)
             /\ still_empty' = StillEmpty(still_empty, page, r, page_links)
             /\ pw_gate_handled' = (pw_gate_handled \/ BrowserLoaded(r.trace))
             /\ IF r.raised
                THEN /\ pc' = "aborted"
                     /\ UNCHANGED <<todo, seen_urls, calls, zero_pages, dl_count,
                                    page_downloaded_files, page_skipped_files>>
                ELSE /\ zero_pages' = IF page_links = <<>> THEN Append(zero_pages, page)
                                      ELSE zero_pages
                     /\ page_downloaded_files' = 0
                     /\ IF args.threads <= 1
                        THEN /\ todo' = abs_page_links
                             /\ page_skipped_files' = 0
                             /\ pc' = "seq_links"
                             /\ UNCHANGED <<seen_urls, calls, dl_count>>
                        ELSE /\ todo' = <<>>
                             /\ page_skipped_files' = tf.skipped
                             /\ seen_urls' = tf.seen
                             /\ calls' = Submit(tf.to_fetch)
                             /\ dl_count' = IncrAll(dl_count, tf.to_fetch)
                             /\ pc' = "pool"
    /\ UNCHANGED <<args, session_cookies, min_page, max_page, page, disk, retry_pages,
                   attempt, retry_i, total_files_downloaded, total_files_skipped,
                   zero_file, refetches, in_soup, out_links>>

\* lines 467-472: the next link of the page, sequential mode
SeqLink ==
    /\ pc = "seq_links"
    /\ todo # <<>>
    /\ todo' = Tail(todo)
    /\ IF already_seen(Head(todo), seen_urls)
       THEN /\ page_skipped_files' = page_skipped_files + 1
            /\ UNCHANGED <<seen_urls, calls, dl_count, pc>>
       ELSE /\ seen_urls' = seen_urls \cup {Head(todo)}
            /\ calls' = <<Call(Head(todo))>>
            /\ dl_count' = Incr(dl_count, Head(todo))
            /\ pc' = "seq_call"
            /\ UNCHANGED page_skipped_files
    /\ last_fetch' = NoFetch
    /\ UNCHANGED <<args, pw_gate_handled, session_cookies, min_page, max_page, page, disk,
                   zero_pages, retry_pages, attempt, retry_i, page_downloaded_files,
                   total_files_downloaded, total_files_skipped, zero_file, still_empty,
                   refetches, main_fetched, in_soup, out_links>>

\* lines 473-479: download_file returned to the main thread
SeqReturn ==
    /\ pc = "seq_call"
    /\ calls[1].st = "returned"
    /\ IF calls[1].ret.skipped
       THEN /\ page_skipped_files' = page_skipped_files + 1
            /\ UNCHANGED page_downloaded_files
       ELSE /\ page_downloaded_files' = page_downloaded_files + 1
            /\ UNCHANGED page_skipped_files
    /\ calls' = <<>>
    /\ pc' = "seq_links"
    /\ last_fetch' = NoFetch
    /\ UNCHANGED <<args, pw_gate_handled, session_cookies, min_page, max_page, page, todo,
                   seen_urls, disk, zero_pages, retry_pages, attempt, retry_i,
                   total_files_downloaded, total_files_skipped, zero_file, still_empty,
                   refetches, dl_count, main_fetched, in_soup, out_links>>

\* lines 472 and 562: download_file raised in the main thread; nothing catches it
CallRaise ==
    /\ pc \in {"seq_call", "retry_call"}
    /\ calls[1].st = "raised"
    /\ pc' = "aborted"
    /\ last_fetch' = NoFetch
    /\ UNCHANGED <<args, pw_gate_handled, session_cookies, min_page, max_page, page, todo,
                   seen_urls, disk, calls, zero_pages, retry_pages, attempt, retry_i,
                   page_downloaded_files, page_skipped_files, total_files_downloaded,
                   total_files_skipped, zero_file, still_empty, refetches, dl_count,
                   main_fetched, in_soup, out_links>>

\* lines 494-508: as_completed hands over one finished future; what the loop body
\* makes of it
\* pool_result without the try/except around fut.result()
pool_result_NoExcept(c) ==
    IF c.st = "raised" THEN "propagate"
    ELSE IF c.ret.skipped THEN "skipped"
    ELSE "downloaded"

pool_result(c) ==
    IF c.st = "raised" THEN "skipped"
    ELSE IF c.ret.skipped THEN "skipped"
    ELSE "downloaded"

PoolCollect(i) ==
    /\ pc = "pool"
    /\ i \in Finished(calls)
    /\ ~calls[i].collected
    /\ calls' = [calls EXCEPT ![i].collected = TRUE]
    /\ page_skipped_files' =
          page_skipped_files + (IF pool_result(calls[i]) = "skipped" THEN 1 ELSE 0)
    /\ page_downloaded_files' =
          page_downloaded_files + (IF pool_result(calls[i]) = "downloaded" THEN 1 ELSE 0)
    /\ pc' = IF pool_result(calls[i]) \in {"skipped", "downloaded"} THEN pc ELSE "aborted"
    /\ last_fetch' = NoFetch
    /\ UNCHANGED <<args, pw_gate_handled, session_cookies, min_page, max_page, page, todo,
                   seen_urls, disk, zero_pages, retry_pages, attempt, retry_i,
                   total_files_downloaded, total_files_skipped, zero_file, still_empty,
                   refetches, dl_count, main_fetched, in_soup, out_links>>

\* PageLoopOver with a pool that is left as soon as every worker has started
PageLoopOver_NoJoin ==
    IF pc = "pool" THEN \A i \in DOMAIN calls : calls[i].st # "queued"
    ELSE pc = "seq_links" /\ todo = <<>>

\* the link loop is over, or the as_completed loop is and the pool has shut down
\* (the with statement of line 489 waits for every worker)
PageLoopOver ==
    IF pc = "pool" THEN \A i \in DOMAIN calls : calls[i].collected
    ELSE pc = "seq_links" /\ todo = <<>>

\* lines 510-532 and the for statement of line 441; future_map is dropped
PageDone ==
    /\ PageLoopOver
    /\ total_files_downloaded' = total_files_downloaded + page_downloaded_files
    /\ total_files_skipped' = total_files_skipped + page_skipped_files
    /\ calls' = SelectSeq(calls, InFlight)
    /\ IF page < max_page
       THEN page' = page + 1 /\ pc' = "fetch_page"
       ELSE page' = page /\ pc' = "after_main"
    /\ last_fetch' = NoFetch
    /\ UNCHANGED <<args, pw_gate_handled, session_cookies, min_page, max_page, todo,
                   seen_urls, disk, zero_pages, retry_pages, attempt, retry_i,
                   page_downloaded_files, page_skipped_files, zero_file, still_empty,
                   refetches, dl_count, main_fetched, in_soup, out_links>>

(***************************************************************************)
(* The retry pass, lines 534-574.                                          *)
(***************************************************************************)
\* line 534
RetryWanted(zp, zero_retries) == zp # <<>> /\ zero_retries > 0

\* MoreAttempts of a loop that never counts its attempts
MoreAttempts_Always(k, zero_retries) == TRUE

\* line 539: range(1, zero_retries + 1) has an attempt after this one
MoreAttempts(k, zero_retries) == k < zero_retries

\* lines 534-538
AfterMain ==
    /\ pc = "after_main"
    /\ IF RetryWanted(zero_pages, args.zero_retries)
       THEN /\ retry_pages' = zero_pages
            /\ zero_pages' = <<>>
            /\ attempt' = 1
            /\ retry_i' = 1
            /\ pc' = "retry_fetch"
       ELSE /\ pc' = "finish"
            /\ UNCHANGED <<retry_pages, zero_pages, attempt, retry_i>>
    /\ last_fetch' = NoFetch
    /\ UNCHANGED <<args, pw_gate_handled, session_cookies, min_page, max_page, page, todo,
                   seen_urls, disk, calls, page_downloaded_files, page_skipped_files,
                   total_files_downloaded, total_files_skipped, zero_file, still_empty,
                   refetches, dl_count, main_fetched, in_soup, out_links>>

\* lines 542-557: fetch the next page of retry_pages
RetryFetch ==
    /\ pc = "retry_fetch"
    /\ retry_i <= Len(retry_pages)
    /\ \E req \in ReqOutcomes(ListingSoups), pwr \in PwOutcomes(ListingSoups) :
          LET r == get_soup(args.use_playwright /\ ~args.hybrid, pw_ready, req, pwr)
              page_links == PageLinks[r.soup.anchors]
          IN /\ last_fetch' = Fetch("retry", retry_pages[retry_i], r)
             /\ still_empty' = StillEmpty(still_empty, retry_pages[retry_i], r, page_links)
             /\ refetches' = Incr(refetches, retry_pages[retry_i])
             /\ pw_gate_handled' = (pw_gate_handled \/ BrowserLoaded(r.trace))
             /\ IF r.raised
                THEN /\ pc' = "aborted"
                     /\ UNCHANGED <<todo, zero_pages, retry_i>>
                ELSE IF page_links = <<>>
                THEN /\ zero_pages' = Append(zero_pages, retry_pages[retry_i])
                     /\ retry_i' = retry_i + 1
                     /\ UNCHANGED <<todo, pc>>
                ELSE /\ todo' = AbsPageLinks[r.soup.anchors]
                     /\ pc' = "retry_links"
                     /\ UNCHANGED <<zero_pages, retry_i>>
    /\ UNCHANGED <<args, session_cookies, min_page, max_page, page, seen_urls, disk, calls,
                   retry_pages, attempt, page_downloaded_files, page_skipped_files,
                   total_files_downloaded, total_files_skipped, zero_file, dl_count,
                   main_fetched, in_soup, out_links>>

\* lines 558-562 and 568: the next link of a retried page, or the page is finished
RetryLink ==
    /\ pc = "retry_links"
    /\ IF todo = <<>>
       THEN /\ retry_i' = retry_i + 1
            /\ pc' = "retry_fetch"
            /\ UNCHANGED <<todo, seen_urls, calls, dl_count>>
       ELSE /\ todo' = Tail(todo)
            /\ UNCHANGED retry_i
            /\ IF already_seen(Head(todo), seen_urls)
               THEN UNCHANGED <<seen_urls, calls, dl_count, pc>>
               ELSE /\ seen_urls' = seen_urls \cup {Head(todo)}
                    /\ calls' = <<Call(Head(todo))>>
                    /\ dl_count' = Incr(dl_count, Head(todo))
                    /\ pc' = "retry_call"
    /\ last_fetch' = NoFetch
    /\ UNCHANGED <<args, pw_gate_handled, session_cookies, min_page, max_page, page, disk,
                   zero_pages, retry_pages, attempt, page_downloaded_files,
                   page_skipped_files, total_files_downloaded, total_files_skipped,
                   zero_file, still_empty, refetches, main_fetched, in_soup, out_links>>

\* lines 563-567
RetryReturn ==
    /\ pc = "retry_call"
    /\ calls[1].st = "returned"
    /\ IF calls[1].ret.skipped
       THEN /\ total_files_skipped' = total_files_skipped + 1
            /\ UNCHANGED total_files_downloaded
       ELSE /\ total_files_downloaded' = total_files_downloaded + 1
            /\ UNCHANGED total_files_skipped
    /\ calls' = <<>>
    /\ pc' = "retry_links"
    /\ last_fetch' = NoFetch
    /\ UNCHANGED <<args, pw_gate_handled, session_cookies, min_page, max_page, page, todo,
                   seen_urls, disk, zero_pages, retry_pages, attempt, retry_i,
                   page_downloaded_files, page_skipped_files, zero_file, still_empty,
                   refetches, dl_count, main_fetched, in_soup, out_links>>

\* lines 570-574 and the for statement of line 539: an attempt is over
AttemptEnd ==
    /\ pc = "retry_fetch"
    /\ retry_i > Len(retry_pages)
    /\ IF zero_pages = <<>>
       THEN /\ pc' = "finish"
            /\ UNCHANGED <<retry_pages, zero_pages, attempt, retry_i>>
       ELSE /\ retry_pages' = zero_pages
            /\ zero_pages' = <<>>
            /\ IF MoreAttempts(attempt, args.zero_retries)
               THEN /\ attempt' = attempt + 1
                    /\ retry_i' = 1
                    /\ UNCHANGED pc
               ELSE /\ pc' = "finish"
                    /\ UNCHANGED <<attempt, retry_i>>
    /\ last_fetch' = NoFetch
    /\ UNCHANGED <<args, pw_gate_handled, session_cookies, min_page, max_page, page, todo,
                   seen_urls, disk, calls, page_downloaded_files, page_skipped_files,
                   total_files_downloaded, total_files_skipped, zero_file, still_empty,
                   refetches, dl_count, main_fetched, in_soup, out_links>>

(***************************************************************************)
(* The end of the run, lines 576-596.                                      *)
(***************************************************************************)
IndexName == <<"i","n","d","e","x",".","h","t","m","l">>

\* lines 576-580: what zero_pages.txt holds after the run
write_zero_pages(zf, zp) ==
    IF zp # <<>> THEN [written |-> TRUE, lines |-> Sorted(Range(zp))] ELSE zf

Finish ==
    /\ pc = "finish"
    /\ zero_file' = write_zero_pages(zero_file, zero_pages)
    /\ disk' = IF args.dry_run THEN disk
               ELSE WriteFile(disk, path_join(OutDir, IndexName), [url |-> <<>>, complete |-> TRUE])
    /\ pc' = "done"
    /\ last_fetch' = NoFetch
    /\ UNCHANGED <<args, pw_gate_handled, session_cookies, min_page, max_page, page, todo,
                   seen_urls, calls, zero_pages, retry_pages, attempt, retry_i,
                   page_downloaded_files, page_skipped_files, total_files_downloaded,
                   total_files_skipped, still_empty, refetches, dl_count, main_fetched,
                   in_soup, out_links>>

Next ==
    \/ InitialFetch
    \/ FetchPage
    \/ SeqLink
    \/ SeqReturn
    \/ CallRaise
    \/ PageDone
    \/ AfterMain
    \/ RetryFetch
    \/ RetryLink
    \/ RetryReturn
    \/ AttemptEnd
    \/ Finish
    \/ \E i \in DOMAIN calls : DlStart(i)
    \/ \E i \in DOMAIN calls : DlRequest(i)
    \/ \E i \in DOMAIN calls : DlWrite(i)
    \/ \E i \in DOMAIN calls : PoolCollect(i)

Spec == Init /\ [][Next]_vars

\* every step the program can take is eventually taken: no call blocks for ever
FairSpec == Spec /\ WF_vars(Next)

(***************************************************************************)
(* extract_pdf_links on its own, over every document of at most MaxAnchors *)
(* anchors.                                                                *)
(***************************************************************************)
H_pdfx == <<"a",".","p","d","f","x">>

ExtractHrefs == {H_dA, H_relA, H_bQ, H_dirQ, H_txt, H_empty, H_PDF, H_pdfx}

BoundedDocs == UNION { [1..n -> ExtractHrefs] : n \in 0..MaxAnchors }

InitExtract ==
    /\ args = [use_playwright |-> FALSE, hybrid |-> FALSE, threads |-> 1,
               zero_retries |-> 0, dry_run |-> TRUE]
    /\ pc = "extract_call"
    /\ pw_gate_handled = FALSE
    /\ session_cookies = "own"
    /\ min_page = 1 /\ max_page = 1 /\ page = 1
    /\ todo = <<>>
    /\ seen_urls = {}
    /\ disk = <<>>
    /\ calls = <<>>
    /\ zero_pages = <<>> /\ retry_pages = <<>>
    /\ attempt = 0 /\ retry_i = 0
    /\ page_downloaded_files = 0 /\ page_skipped_files = 0
    /\ total_files_downloaded = 0 /\ total_files_skipped = 0
    /\ zero_file = [written |-> FALSE, lines |-> <<>>]
    /\ last_fetch = NoFetch
    /\ still_empty = {}
    /\ refetches = <<>>
    /\ dl_count = <<>>
    /\ main_fetched = <<>>
    /\ in_soup \in BoundedDocs
    /\ out_links = <<>>

ExtractCall ==
    /\ pc = "extract_call"
    /\ out_links' = extract_pdf_links(in_soup)
    /\ pc' = "extract_done"
    /\ UNCHANGED <<args, pw_gate_handled, session_cookies, min_page, max_page, page, todo,
                   seen_urls, disk, calls, zero_pages, retry_pages, attempt, retry_i,
                   page_downloaded_files, page_skipped_files, total_files_downloaded,
                   total_files_skipped, zero_file, last_fetch, still_empty, refetches,
                   dl_count, main_fetched, in_soup>>

NextExtract == ExtractCall

SpecExtract == InitExtract /\ [][NextExtract]_vars

(***************************************************************************)
(* Properties.                                                             *)
(***************************************************************************)
\* the fetches of the latest get_soup call
T == last_fetch.trace

\* C1: when the run finishes, every page whose latest fetch (main pass or
\* last retry) yielded no link is a line of zero_pages.txt.
C1_ZeroPagesRecorded ==
    pc = "done" =>
        \A p \in still_empty : zero_file.written /\ p \in Range(zero_file.lines)

\* C2 as stated: whatever the flags, a 403 answered to the Requests session is
\* followed by a browser fetch of the same page, and if that fetch returns,
\* its page is what get_soup returns and the run goes on.
C2_FallbackWhateverFlags ==
    \A k \in DOMAIN T :
        (T[k].via = "requests" /\ T[k].status = 403) =>
            /\ k < Len(T)
            /\ T[k + 1].via = "playwright"
            /\ T[k + 1].status = 200 =>
                  /\ ~last_fetch.raised
                  /\ last_fetch.soup = T[k + 1].soup
                  /\ pc # "aborted"

\* C2, amended: with a Playwright fetcher (--use-playwright or --hybrid) a 403
\* answered to the Requests session is followed by a browser fetch of the
\* same page whose page, if it returns, is what get_soup returns; without
\* one, get_soup raises, no browser fetch is made and the run ends.
C2_FallbackWithFetcher ==
    \A k \in DOMAIN T :
        (T[k].via = "requests" /\ T[k].status = 403) =>
            IF pw_ready
            THEN /\ Len(T) = k + 1
                 /\ T[k + 1].via = "playwright"
                 /\ T[k + 1].status = 200 =>
                       /\ ~last_fetch.raised
                       /\ last_fetch.soup = T[k + 1].soup
                       /\ pc # "aborted"
            ELSE /\ Len(T) = k
                 /\ last_fetch.raised
                 /\ pc = "aborted"

\* a retry fetch that fell back to the browser after a 403 and went on
C2_Witness ==
    /\ last_fetch.phase = "retry"
    /\ Len(T) = 2
    /\ T[1].via = "requests" /\ T[1].status = 403
    /\ T[2].via = "playwright" /\ T[2].status = 200
    /\ last_fetch.soup.anchors # <<>>
    /\ pc = "retry_links"

\* a pool worker's call raised and the main thread has collected it
CollectsRaised(i) ==
    /\ pc = "pool"
    /\ i \in DOMAIN calls /\ i \in DOMAIN calls'
    /\ calls[i].st = "raised" /\ ~calls[i].collected /\ calls'[i].collected

\* C3: with --threads > 1, collecting a download that raised adds one to the
\* page's skipped files and nothing to its downloaded files, leaves the
\* other futures to be collected, and keeps the run in the page's loop; no
\* step of the pool phase aborts the run.
C3_PoolFailureIsSkipped ==
    [][ /\ \A i \in DOMAIN calls :
              CollectsRaised(i) =>
                  /\ page_skipped_files' = page_skipped_files + 1
                  /\ page_downloaded_files' = page_downloaded_files
                  /\ pc' = "pool"
                  /\ \A j \in DOMAIN calls : j # i => calls'[j] = calls[j]
        /\ pc = "pool" => pc' \in {"pool", "fetch_page", "after_main"}
      ]_vars

\* the run finished normally although a worker of the last page had raised
C3_Witness ==
    /\ args.threads > 1
    /\ pc = "pool"
    /\ Len(main_fetched) = 2
    /\ \E i \in DOMAIN calls : calls[i].st = "raised" /\ calls[i].collected
    /\ \E i \in DOMAIN calls : calls[i].st = "returned" /\ calls[i].collected
                               /\ ~calls[i].ret.skipped
    /\ page_skipped_files = 1 /\ page_downloaded_files = 1

\* an HTTP error status other than 403 (the Requests session got a response)
OtherHttpError(e) == e.via = "requests" /\ e.status \notin {0, 200, 403}

\* C4: a listing fetch answered with an HTTP error status other than 403
\* makes no browser fetch, raises out of get_soup and main, and ends the run;
\* once the run has ended nothing more is fetched or downloaded.
C4_OtherStatusTerminates ==
    /\ [](\A k \in DOMAIN T :
            OtherHttpError(T[k]) =>
                /\ Len(T) = 1
                /\ last_fetch.raised
                /\ pc = "aborted")
    /\ [][pc = "aborted" => UNCHANGED vars]_vars

\* a retry fetch answered 500 by a run that has a browser at hand
C4_Witness ==
    /\ last_fetch.phase = "retry"
    /\ Len(T) = 1 /\ T[1].via = "requests" /\ T[1].status = 500
    /\ pw_ready
    /\ pc = "aborted"

\* C5: the main pass fetches the pages min_page, min_page + 1, ... one by
\* one up to max_page, and a page is fetched only when no download of an
\* earlier page is queued or running.
C5_PagesInOrder ==
    /\ [](/\ \A k \in DOMAIN main_fetched : main_fetched[k] = min_page + k - 1
          /\ Len(main_fetched) <= max_page - min_page + 1
          /\ pc \in {"after_main", "retry_fetch", "retry_links", "retry_call", "finish", "done"}
                => Len(main_fetched) = max_page - min_page + 1)
    /\ [][Len(main_fetched') > Len(main_fetched) =>
              \A i \in DOMAIN calls : ~InFlight(calls[i])]_vars

\* the second page's pool is at work after a file of the first page was downloaded
C5_Witness ==
    /\ args.threads > 1
    /\ Len(main_fetched) = 2
    /\ pc = "pool"
    /\ total_files_downloaded >= 1
    /\ \E i \in DOMAIN calls : calls[i].st = "writing"

\* C6: no URL is passed to download_file twice in a run, and a URL is in the
\* seen set from the moment its download is dispatched.
C6_EachUrlOnce ==
    /\ \A u \in DOMAIN dl_count : dl_count[u] <= 1 /\ u \in seen_urls
    /\ \A i \in DOMAIN calls : calls[i].url \in seen_urls

\* the second page names a URL the first page had dispatched: it is skipped
\* before anything of the second page is collected
C6_Witness ==
    /\ args.threads > 1
    /\ Len(main_fetched) = 2
    /\ pc = "pool"
    /\ page_skipped_files >= 1
    /\ calls # <<>>
    /\ \A i \in DOMAIN calls : ~calls[i].collected

\* the call i enters download_file in this step
EntersDownload(i) ==
    /\ i \in DOMAIN calls /\ i \in DOMAIN calls'
    /\ calls'[i].url = calls[i].url
    /\ calls[i].st = "queued" /\ calls'[i].st # "queued"

\* C7: a download_file call that finds its destination path on disk returns
\* (path, 0, True) at once, dry run or not: no request is issued and the
\* output directory is as it was.
C7_ExistingFileNoOp ==
    /\ [][\A i \in DOMAIN calls :
            (EntersDownload(i) /\ exists(disk, dest_path(calls[i].url))) =>
                /\ calls'[i].st = "returned"
                /\ calls'[i].ret = [path |-> dest_path(calls[i].url), bytes_written |-> 0,
                                    skipped |-> TRUE]
                /\ ~calls'[i].requested
                /\ disk' = disk]_vars
    /\ [](\A i \in DOMAIN calls :
            (calls[i].st = "returned" /\ calls[i].ret.skipped) => ~calls[i].requested)

\* without --dry-run, a call returned skipped for a file an earlier run left
C7_Witness ==
    /\ ~args.dry_run
    /\ \E i \in DOMAIN calls :
          /\ calls[i].st = "returned" /\ calls[i].ret.skipped
          /\ exists(disk, dest_path(calls[i].url))
          /\ disk[dest_path(calls[i].url)] = OldFile

InRetry == pc \in {"retry_fetch", "retry_links", "retry_call"}

\* C8: the retry pass is entered only with --zero-retries > 0 and a page that
\* yielded no link; it makes at most --zero-retries attempts and fetches a
\* page at most once per attempt, and only a page whose previous fetch
\* yielded no link; and once entered it is left.
C8_RetryBounded ==
    /\ [](/\ InRetry => (args.zero_retries > 0 /\ attempt \in 1..args.zero_retries)
          /\ \A p \in DOMAIN refetches :
                refetches[p] <= args.zero_retries /\ refetches[p] <= attempt)
    /\ [][/\ (~InRetry /\ InRetry') => (still_empty # {} /\ Range(retry_pages') = still_empty)
          /\ refetches' # refetches =>
                (last_fetch'.phase = "retry" /\ last_fetch'.page \in still_empty)]_vars
    /\ (InRetry ~> ~InRetry)

\* two attempts were made: one page was fetched in both, the other only in the first
C8_Witness ==
    /\ pc = "finish"
    /\ args.zero_retries = 2 /\ attempt = 2
    /\ \E p, q \in DOMAIN refetches : refetches[p] = 2 /\ refetches[q] = 1

\* the href ends in ".pdf" or holds ".pdf?", spelled out character by character
IsPdfHref(h) ==
    \/ /\ Len(h) >= 4
       /\ h[Len(h) - 3] = "." /\ h[Len(h) - 2] = "p" /\ h[Len(h) - 1] = "d" /\ h[Len(h)] = "f"
    \/ \E i \in 1..(Len(h) - 4) :
          h[i] = "." /\ h[i + 1] = "p" /\ h[i + 2] = "d" /\ h[i + 3] = "f" /\ h[i + 4] = "?"

FirstIndex(seq, x) == CHOOSE i \in DOMAIN seq : seq[i] = x /\ \A j \in 1..(i - 1) : seq[j] # x

\* C9: the result of extract_pdf_links holds exactly the non-empty hrefs that
\* end in ".pdf" or contain ".pdf?", each once, in the order of their first
\* occurrence in the document.
C9_ExtractDedupOrdered ==
    pc = "extract_done" =>
        /\ Range(out_links) = { h \in Range(in_soup) : h # <<>> /\ IsPdfHref(h) }
        /\ \A i, j \in DOMAIN out_links : i # j => out_links[i] # out_links[j]
        /\ \A i, j \in DOMAIN out_links :
              i < j => FirstIndex(in_soup, out_links[i]) < FirstIndex(in_soup, out_links[j])

\* a document with a repeated link around another link
C9_Witness ==
    /\ pc = "extract_done"
    /\ in_soup = <<H_bQ, H_dA, H_bQ>>
    /\ out_links = <<H_bQ, H_dA>>

\* C10: in a --hybrid run the initial fetch is made by the browser, and every
\* fetch of the main pass and of the retry pass by the Requests session alone.
C10_HybridBrowserOnce ==
    args.hybrid =>
        /\ (last_fetch.phase = "initial" /\ ~last_fetch.raised) =>
              (Len(T) = 1 /\ T[1].via = "playwright")
        /\ last_fetch.phase \in {"main", "retry"} =>
              \A k \in DOMAIN T : T[k].via = "requests"

\* the worker of call i has the file at its destination path open for writing
WritesTo(i) == calls[i].st = "writing"

\* C11: two workers of a page's pool never have the same destination path
\* open for writing at the same time.
C11_NoSharedDestination ==
    \A i, j \in DOMAIN calls :
        (i # j /\ WritesTo(i) /\ WritesTo(j)) =>
            dest_path(calls[i].url) # dest_path(calls[j].url)

\* the file at the destination path of call i is the one call i opened
FileLeftBy(i) ==
    /\ exists(disk, dest_path(calls[i].url))
    /\ disk[dest_path(calls[i].url)].url = calls[i].url

\* C12: a download_file call that raised after its request was issued has left
\* no file at its destination path, so that a later call for the same URL
\* passes the exists test and downloads the file.
C12_NoFileAfterFailure ==
    \A i \in DOMAIN calls :
        (calls[i].st = "raised" /\ calls[i].requested) =>
            /\ ~FileLeftBy(i)
            /\ download_check(Call(calls[i].url), disk, FALSE).st = "requesting"

====
